---------------------------- MODULE Spec2Model ----------------------------
(***************************************************************************)
(* Model of crates/bevy_render/src/mesh/shape.rs: the conversions of the   *)
(* shape descriptors Cube, Box, Quad, Plane and Icosphere into a Mesh.     *)
(*                                                                         *)
(* f32 values are held in fixed point with one fractional bit: the f32     *)
(* value v is the integer 2v.  The inputs are whole numbers, so that the   *)
(* halving done by the code (x / 2.0) is exact in this representation, as  *)
(* it is in f32.                                                           *)
(***************************************************************************)
EXTENDS Integers, Sequences, FiniteSets, TLC

(***************************************************************************)
(* Bounds of the model.                                                    *)
(***************************************************************************)
\* Lengths, sizes and radii are the whole numbers -MaxLen .. MaxLen.
MaxLen == 2
\* Icosphere levels 0 .. MaxSubdivisions are among the levels requested.
MaxSubdivisions == 2

(***************************************************************************)
(* f32 arithmetic on the fixed point representation.                       *)
(***************************************************************************)
\* The f32 literal n.0 (1.0 is F(1), 0. is F(0)).
F(n) == n * 2

\* x / 2.0
Half(x) == x \div 2

\* -x
Neg(x) == 0 - x

\* The f32 inputs of the model.
Floats == {F(n) : n \in (0 - MaxLen)..MaxLen}

(***************************************************************************)
(* The mesh container (super::Mesh, super::Indices), as the source uses    *)
(* it: a topology tag, a store of named attribute buffers, an optional     *)
(* index buffer.                                                           *)
(***************************************************************************)
ATTRIBUTE_POSITION == "Vertex_Position"

ATTRIBUTE_NORMAL == "Vertex_Normal"

ATTRIBUTE_UV_0 == "Vertex_Uv"

TriangleList == "TriangleList"

None == [tag |-> "None"]

\* Indices::U32(values)
IndicesU32(values) == [tag |-> "U32", values |-> values]

\* Mesh::new(primitive_topology)
MeshNew(primitive_topology) ==
    [primitive_topology |-> primitive_topology,
     attributes |-> << >>,
     indices |-> None]

\* mesh.set_attribute(name, values)
SetAttribute(mesh, name, values) ==
    [mesh EXCEPT !.attributes =
        [k \in (DOMAIN mesh.attributes) \cup {name} |->
            IF k = name THEN values ELSE mesh.attributes[k]]]

\* mesh.set_indices(Some(indices))
SetIndices(mesh, indices) == [mesh EXCEPT !.indices = indices]

(***************************************************************************)
(* Cube and Box.                                                           *)
(***************************************************************************)
\* Cube::new(size)
CubeNew(size) == [size |-> size]

\* Box::new(x_length, y_length, z_length)
BoxNew(x_length, y_length, z_length) ==
    [max_x |-> Half(x_length),
     min_x |-> Half(Neg(x_length)),
     max_y |-> Half(y_length),
     min_y |-> Half(Neg(y_length)),
     max_z |-> Half(z_length),
     min_z |-> Half(Neg(z_length))]

\* The vertices table of From<Box>: (position, normal, uv) per vertex.
BoxVertices(sp) ==
    << \* Top
       <<<<sp.min_x, sp.min_y, sp.max_z>>, <<F(0), F(0), F(1)>>, <<F(0), F(0)>>>>,
       <<<<sp.max_x, sp.min_y, sp.max_z>>, <<F(0), F(0), F(1)>>, <<F(1), F(0)>>>>,
       <<<<sp.max_x, sp.max_y, sp.max_z>>, <<F(0), F(0), F(1)>>, <<F(1), F(1)>>>>,
       <<<<sp.min_x, sp.max_y, sp.max_z>>, <<F(0), F(0), F(1)>>, <<F(0), F(1)>>>>,
       \* Bottom
       <<<<sp.min_x, sp.max_y, sp.min_z>>, <<F(0), F(0), F(-1)>>, <<F(1), F(0)>>>>,
       <<<<sp.max_x, sp.max_y, sp.min_z>>, <<F(0), F(0), F(-1)>>, <<F(0), F(0)>>>>,
       <<<<sp.max_x, sp.min_y, sp.min_z>>, <<F(0), F(0), F(-1)>>, <<F(0), F(1)>>>>,
       <<<<sp.min_x, sp.min_y, sp.min_z>>, <<F(0), F(0), F(-1)>>, <<F(1), F(1)>>>>,
       \* Right
       <<<<sp.max_x, sp.min_y, sp.min_z>>, <<F(1), F(0), F(0)>>, <<F(0), F(0)>>>>,
       <<<<sp.max_x, sp.max_y, sp.min_z>>, <<F(1), F(0), F(0)>>, <<F(1), F(0)>>>>,
       <<<<sp.max_x, sp.max_y, sp.max_z>>, <<F(1), F(0), F(0)>>, <<F(1), F(1)>>>>,
       <<<<sp.max_x, sp.min_y, sp.max_z>>, <<F(1), F(0), F(0)>>, <<F(0), F(1)>>>>,
       \* Left
       <<<<sp.min_x, sp.min_y, sp.max_z>>, <<F(-1), F(0), F(0)>>, <<F(1), F(0)>>>>,
       <<<<sp.min_x, sp.max_y, sp.max_z>>, <<F(-1), F(0), F(0)>>, <<F(0), F(0)>>>>,
       <<<<sp.min_x, sp.max_y, sp.min_z>>, <<F(-1), F(0), F(0)>>, <<F(0), F(1)>>>>,
       <<<<sp.min_x, sp.min_y, sp.min_z>>, <<F(-1), F(0), F(0)>>, <<F(1), F(1)>>>>,
       \* Front
       <<<<sp.max_x, sp.max_y, sp.min_z>>, <<F(0), F(1), F(0)>>, <<F(1), F(0)>>>>,
       <<<<sp.min_x, sp.max_y, sp.min_z>>, <<F(0), F(1), F(0)>>, <<F(0), F(0)>>>>,
       <<<<sp.min_x, sp.max_y, sp.max_z>>, <<F(0), F(1), F(0)>>, <<F(0), F(1)>>>>,
       <<<<sp.max_x, sp.max_y, sp.max_z>>, <<F(0), F(1), F(0)>>, <<F(1), F(1)>>>>,
       \* Back
       <<<<sp.max_x, sp.min_y, sp.max_z>>, <<F(0), F(-1), F(0)>>, <<F(0), F(0)>>>>,
       <<<<sp.min_x, sp.min_y, sp.max_z>>, <<F(0), F(-1), F(0)>>, <<F(1), F(0)>>>>,
       <<<<sp.min_x, sp.min_y, sp.min_z>>, <<F(0), F(-1), F(0)>>, <<F(1), F(1)>>>>,
       <<<<sp.max_x, sp.min_y, sp.min_z>>, <<F(0), F(-1), F(0)>>, <<F(0), F(1)>>>> >>

\* The index buffer of From<Box>, numbering the vertices from 1.
BoxIndicesOneBased ==
    << 1, 2, 3, 3, 4, 1,
       5, 6, 7, 7, 8, 5,
       9, 10, 11, 11, 12, 9,
       13, 14, 15, 15, 16, 13,
       17, 18, 19, 19, 20, 17,
       21, 22, 23, 23, 24, 21 >>

\* The index buffer of From<Box>.
BoxIndices ==
    << 0, 1, 2, 2, 3, 0,        \* top
       4, 5, 6, 6, 7, 4,        \* bottom
       8, 9, 10, 10, 11, 8,     \* right
       12, 13, 14, 14, 15, 12,  \* left
       16, 17, 18, 18, 19, 16,  \* front
       20, 21, 22, 22, 23, 20 >> \* back

\* for (position, normal, uv) in vertices.iter() { positions.push(*position) }
Positions(vertices) == [i \in 1..Len(vertices) |-> vertices[i][1]]

\* normals.push(*position)
NormalsPushPositions(vertices) == [i \in 1..Len(vertices) |-> vertices[i][1]]

\* for (position, normal, uv) in vertices.iter() { normals.push(*normal) }
Normals(vertices) == [i \in 1..Len(vertices) |-> vertices[i][2]]

\* uvs.push([uv[1], uv[0]])
UvsSwapped(vertices) == [i \in 1..Len(vertices) |-> <<vertices[i][3][2], vertices[i][3][1]>>]

\* for (position, normal, uv) in vertices.iter() { uvs.push(*uv) }
Uvs(vertices) == [i \in 1..Len(vertices) |-> vertices[i][3]]

\* impl From<Box> for Mesh
FromBox(sp) ==
    LET vertices == BoxVertices(sp)
        indices == IndicesU32(BoxIndices)
        m0 == MeshNew(TriangleList)
        m1 == SetAttribute(m0, ATTRIBUTE_POSITION, Positions(vertices))
        m2 == SetAttribute(m1, ATTRIBUTE_NORMAL, Normals(vertices))
        m3 == SetAttribute(m2, ATTRIBUTE_UV_0, Uvs(vertices))
    IN  SetIndices(m3, indices)

\* impl From<Cube> for Mesh
FromCube(cube) == FromBox(BoxNew(cube.size, cube.size, cube.size))

(***************************************************************************)
(* Quad.                                                                   *)
(***************************************************************************)
\* vec2(x, y)
vec2(x, y) == [x |-> x, y |-> y]

\* Quad::new(size)
QuadNew(size) == [size |-> size, flip |-> FALSE]

\* Quad::flipped leaving flip unset.
QuadFlippedUnset(size) == [size |-> size, flip |-> FALSE]

\* Quad::flipped(size)
QuadFlipped(size) == [size |-> size, flip |-> TRUE]

\* The vertices table of From<Quad>, the flag mirroring the UVs in u and
\* leaving the order of the vertices alone.
QuadVerticesMirrorUv(quad) ==
    LET extent_x == Half(quad.size.x)
        extent_y == Half(quad.size.y)
        u_left == IF quad.flip THEN F(1) ELSE F(0)
        u_right == IF quad.flip THEN F(0) ELSE F(1)
    IN  << <<<<Neg(extent_x), Neg(extent_y), F(0)>>, <<F(0), F(0), F(1)>>, <<u_left, F(1)>>>>,
           <<<<Neg(extent_x), extent_y, F(0)>>, <<F(0), F(0), F(1)>>, <<u_left, F(0)>>>>,
           <<<<extent_x, extent_y, F(0)>>, <<F(0), F(0), F(1)>>, <<u_right, F(0)>>>>,
           <<<<extent_x, Neg(extent_y), F(0)>>, <<F(0), F(0), F(1)>>, <<u_right, F(1)>>>> >>

\* The vertices table of From<Quad>.
QuadVertices(quad) ==
    LET extent_x == Half(quad.size.x)
        extent_y == Half(quad.size.y)
        north_west == vec2(Neg(extent_x), extent_y)
        north_east == vec2(extent_x, extent_y)
        south_west == vec2(Neg(extent_x), Neg(extent_y))
        south_east == vec2(extent_x, Neg(extent_y))
    IN  IF quad.flip
        THEN << <<<<south_east.x, south_east.y, F(0)>>, <<F(0), F(0), F(1)>>, <<F(1), F(1)>>>>,
                <<<<north_east.x, north_east.y, F(0)>>, <<F(0), F(0), F(1)>>, <<F(1), F(0)>>>>,
                <<<<north_west.x, north_west.y, F(0)>>, <<F(0), F(0), F(1)>>, <<F(0), F(0)>>>>,
                <<<<south_west.x, south_west.y, F(0)>>, <<F(0), F(0), F(1)>>, <<F(0), F(1)>>>> >>
        ELSE << <<<<south_west.x, south_west.y, F(0)>>, <<F(0), F(0), F(1)>>, <<F(0), F(1)>>>>,
                <<<<north_west.x, north_west.y, F(0)>>, <<F(0), F(0), F(1)>>, <<F(0), F(0)>>>>,
                <<<<north_east.x, north_east.y, F(0)>>, <<F(0), F(0), F(1)>>, <<F(1), F(0)>>>>,
                <<<<south_east.x, south_east.y, F(0)>>, <<F(0), F(0), F(1)>>, <<F(1), F(1)>>>> >>

\* The index buffer of From<Quad>, split along the other diagonal and wound
\* the other way.
QuadIndicesOtherWinding == << 0, 1, 2, 0, 2, 3 >>

\* The index buffer of From<Quad>.
QuadIndices == << 0, 2, 1, 0, 3, 2 >>

\* impl From<Quad> for Mesh
FromQuad(quad) ==
    LET vertices == QuadVertices(quad)
        indices == IndicesU32(QuadIndices)
        m0 == MeshNew(TriangleList)
        m1 == SetIndices(m0, indices)
        m2 == SetAttribute(m1, ATTRIBUTE_POSITION, Positions(vertices))
        m3 == SetAttribute(m2, ATTRIBUTE_NORMAL, Normals(vertices))
    IN  SetAttribute(m3, ATTRIBUTE_UV_0, Uvs(vertices))

(***************************************************************************)
(* Plane.                                                                  *)
(***************************************************************************)
\* The vertices table of From<Plane>.
PlaneVertices(plane) ==
    LET extent == Half(plane.size)
    IN  << <<<<extent, F(0), Neg(extent)>>, <<F(0), F(1), F(0)>>, <<F(1), F(1)>>>>,
           <<<<extent, F(0), extent>>, <<F(0), F(1), F(0)>>, <<F(1), F(0)>>>>,
           <<<<Neg(extent), F(0), extent>>, <<F(0), F(1), F(0)>>, <<F(0), F(0)>>>>,
           <<<<Neg(extent), F(0), Neg(extent)>>, <<F(0), F(1), F(0)>>, <<F(0), F(1)>>>> >>

\* The index buffer of From<Plane>, wound the other way.
PlaneIndicesOtherWinding == << 0, 1, 2, 0, 2, 3 >>

\* The index buffer of From<Plane>.
PlaneIndices == << 0, 2, 1, 0, 3, 2 >>

\* impl From<Plane> for Mesh
FromPlane(plane) ==
    LET vertices == PlaneVertices(plane)
        indices == IndicesU32(PlaneIndices)
        m0 == MeshNew(TriangleList)
        m1 == SetIndices(m0, indices)
        m2 == SetAttribute(m1, ATTRIBUTE_POSITION, Positions(vertices))
        m3 == SetAttribute(m2, ATTRIBUTE_NORMAL, Normals(vertices))
    IN  SetAttribute(m3, ATTRIBUTE_UV_0, Uvs(vertices))

(***************************************************************************)
(* usize arithmetic.  A usize is a word of usize_bytes bytes, held as the  *)
(* sequence of its bytes, least significant first: the values that make    *)
(* the arithmetic of the code overflow are part of the input type.         *)
(* Natural numbers of any size are byte sequences of any length.           *)
(***************************************************************************)
Byte == 2^8

\* The bytes 1..len of the natural number n.
NatToBytes(n, len) ==
    LET RECURSIVE Digits(_, _)
        Digits(m, i) == IF i > len THEN << >>
                        ELSE <<m % Byte>> \o Digits(m \div Byte, i + 1)
    IN  Digits(n, 1)

\* The natural number held in a byte sequence (of a value TLC can hold).
BytesToNat(w) ==
    LET RECURSIVE Value(_)
        Value(i) == IF i > Len(w) THEN 0 ELSE w[i] + Byte * Value(i + 1)
    IN  Value(1)

\* a padded with zero bytes to len bytes.
Pad(a, len) == [i \in 1..len |-> IF i <= Len(a) THEN a[i] ELSE 0]

\* The carries of a sequence of column sums propagated: the exact value,
\* as long as the last column leaves no carry.
Carry(cols) ==
    LET RECURSIVE Go(_, _)
        Go(i, c) == IF i > Len(cols) THEN << >>
                    ELSE <<(cols[i] + c) % Byte>> \o Go(i + 1, (cols[i] + c) \div Byte)
    IN  Go(1, 0)

\* The exact sum of two natural numbers, one byte longer than the longer.
BigAdd(a, b) ==
    LET len == (IF Len(a) > Len(b) THEN Len(a) ELSE Len(b)) + 1
    IN  Carry([i \in 1..len |-> Pad(a, len)[i] + Pad(b, len)[i]])

\* The exact product of two natural numbers, Len(a) + Len(b) bytes.
BigMul(a, b) ==
    LET len == Len(a) + Len(b)
        RECURSIVE Column(_, _)
        Column(k, i) ==
            IF i > Len(a) THEN 0
            ELSE (IF k - i + 1 >= 1 /\ k - i + 1 <= Len(b)
                  THEN a[i] * b[k - i + 1] ELSE 0) + Column(k, i + 1)
    IN  Carry([k \in 1..len |-> Column(k, 1)])

\* a < b, for natural numbers of any lengths.
BigLess(a, b) ==
    LET len == IF Len(a) > Len(b) THEN Len(a) ELSE Len(b)
        x == Pad(a, len)
        y == Pad(b, len)
    IN  \E i \in 1..len : x[i] < y[i] /\ \A j \in (i + 1)..len : x[j] = y[j]

\* a = b as numbers.
BigEq(a, b) == ~BigLess(a, b) /\ ~BigLess(b, a)

\* Whether a natural number fits a usize of `bytes` bytes.
Fits(a, bytes) == \A i \in 1..Len(a) : i > bytes => a[i] = 0

\* The usize a natural number wraps to.
Wrap(a, bytes) == Pad(SubSeq(a, 1, IF Len(a) < bytes THEN Len(a) ELSE bytes), bytes)

\* The usize literal n.
Usize(n, bytes) == NatToBytes(n, bytes)

\* a + b in usize: [value, overflow].
UsizeAdd(a, b, bytes) ==
    [value |-> Wrap(BigAdd(a, b), bytes), overflow |-> ~Fits(BigAdd(a, b), bytes)]

\* a * b in usize: [value, overflow].
UsizeMul(a, b, bytes) ==
    [value |-> Wrap(BigMul(a, b), bytes), overflow |-> ~Fits(BigMul(a, b), bytes)]

(***************************************************************************)
(* The subdivider (hexasphere::shapes::IcoSphere), as the source uses it:  *)
(* IcoSphere::new, raw_points, raw_data, get_indices.  Each of the 20      *)
(* faces of the icosahedron is cut into (subdivisions + 1)^2 triangles on  *)
(* a grid; the 12 corners, the points on the 30 edges and the points       *)
(* inside the faces are numbered in that order.                            *)
(***************************************************************************)
\* The corners a, b, c and the edges ab, bc, ca of the 20 faces: corner 0
\* the north pole, 1..5 the upper ring, 6..10 the lower ring, 11 the south
\* pole.
TRIANGLES ==
    [f \in 0..19 |->
        LET r == f % 5
            q == (r + 1) % 5
        IN  CASE f \div 5 = 0 ->
                   [a |-> 0, b |-> 1 + r, c |-> 1 + q,
                    ab_edge |-> r, bc_edge |-> 5 + r, ca_edge |-> q]
              [] f \div 5 = 1 ->
                   [a |-> 1 + r, b |-> 6 + r, c |-> 1 + q,
                    ab_edge |-> 10 + r, bc_edge |-> 15 + r, ca_edge |-> 5 + r]
              [] f \div 5 = 2 ->
                   [a |-> 1 + q, b |-> 6 + r, c |-> 6 + q,
                    ab_edge |-> 15 + r, bc_edge |-> 20 + r, ca_edge |-> 10 + q]
              [] OTHER ->
                   [a |-> 11, b |-> 6 + q, c |-> 6 + r,
                    ab_edge |-> 25 + q, bc_edge |-> 20 + r, ca_edge |-> 25 + r]]

\* The number of points of a sphere of `subdivisions` subdivisions.
PointCount(subdivisions) ==
    12 + 30 * subdivisions + 20 * ((subdivisions * (subdivisions - 1)) \div 2)

\* IcoSphere::new(subdivisions, generator)
IcoSphereNew(subdivisions) == [subdivisions |-> subdivisions]

\* The raw point p of the unit sphere, as a Vec3A: the point, and the
\* factor it is scaled by.
UnitPoint(p) == [point |-> p, scale |-> F(1)]

\* The closure given to IcoSphere::new: the [norm_inclination, norm_azumith]
\* of a raw point.
SphereUv(point) == [norm_inclination |-> point.point, norm_azumith |-> point.point]

\* generated.raw_points()
RawPoints(generated) ==
    [p \in 1..PointCount(generated.subdivisions) |-> UnitPoint(p - 1)]

\* generated.raw_data()
RawData(generated) ==
    [p \in 1..PointCount(generated.subdivisions) |-> SphereUv(UnitPoint(p - 1))]

\* The point `steps` steps from corner u towards corner v on edge `edge`.
EdgePoint(subdivisions, edge, u, v, steps) ==
    12 + edge * subdivisions
       + (IF u < v THEN steps - 1 ELSE subdivisions - steps)

\* The grid point of face f at i steps from the side bc and j steps from the
\* side ca.
GridPoint(subdivisions, f, i, j) ==
    LET n == subdivisions + 1
        k == n - i - j
        t == TRIANGLES[f]
    IN  CASE i = n -> t.a
          [] j = n -> t.b
          [] k = n -> t.c
          [] k = 0 -> EdgePoint(subdivisions, t.ab_edge, t.a, t.b, j)
          [] i = 0 -> EdgePoint(subdivisions, t.bc_edge, t.b, t.c, k)
          [] j = 0 -> EdgePoint(subdivisions, t.ca_edge, t.c, t.a, i)
          [] OTHER ->
               12 + 30 * subdivisions
                  + f * ((subdivisions * (subdivisions - 1)) \div 2)
                  + ((i - 1) * (subdivisions - 1) - ((i - 1) * (i - 2)) \div 2)
                  + (j - 1)

\* The indices of the triangles of row `row` of face f.
RowIndices(subdivisions, f, row) ==
    [m \in 1..3 * (2 * (subdivisions + 1 - row) - 1) |->
        LET q == (m - 1) \div 3
            w == (m - 1) % 3
            col == q \div 2
        IN  IF q % 2 = 0
            THEN CASE w = 0 -> GridPoint(subdivisions, f, row, col)
                   [] w = 1 -> GridPoint(subdivisions, f, row + 1, col)
                   [] OTHER -> GridPoint(subdivisions, f, row, col + 1)
            ELSE CASE w = 0 -> GridPoint(subdivisions, f, row + 1, col)
                   [] w = 1 -> GridPoint(subdivisions, f, row + 1, col + 1)
                   [] OTHER -> GridPoint(subdivisions, f, row, col + 1)]

\* The index block of face f: its rows, one after the other.
Block(subdivisions, f) ==
    LET RECURSIVE Rows(_, _)
        Rows(first, last) ==
            IF first = last THEN RowIndices(subdivisions, f, first)
            ELSE Rows(first, (first + last) \div 2)
                 \o Rows((first + last) \div 2 + 1, last)
    IN  Rows(0, subdivisions)

\* generated.get_indices(triangle, buffer): the block appended to the buffer.
GetIndices(generated, triangle, buffer) ==
    buffer \o Block(generated.subdivisions, triangle)

(***************************************************************************)
(* Icosphere.                                                              *)
(***************************************************************************)
\* Icosphere::default()
IcosphereDefault(bytes) == [radius |-> F(1), subdivisions |-> Usize(5, bytes)]

\* sphere.subdivisions > 80
TooManySubdivisionsAbove80(subdivisions, bytes) == BigLess(Usize(80, bytes), subdivisions)

\* sphere.subdivisions >= 80
TooManySubdivisions(subdivisions, bytes) == ~BigLess(subdivisions, Usize(80, bytes))

\* let subdivisions = sphere.subdivisions + 1;
\* let number_of_resulting_points = (subdivisions * subdivisions * 10) + 2;
\* The value computed, and the first operation that overflows, if any.
NumberOfResultingPoints(sphere_subdivisions, bytes) ==
    LET subdivisions == UsizeAdd(sphere_subdivisions, Usize(1, bytes), bytes)
        squared == UsizeMul(subdivisions.value, subdivisions.value, bytes)
        times_ten == UsizeMul(squared.value, Usize(10, bytes), bytes)
        plus_two == UsizeAdd(times_ten.value, Usize(2, bytes), bytes)
    IN  [value |-> plus_two.value,
         overflow |-> CASE subdivisions.overflow -> "add"
                        [] squared.overflow \/ times_ten.overflow -> "multiply"
                        [] plus_two.overflow -> "add"
                        [] OTHER -> "none"]

\* The panic of the guard of From<Icosphere>: the panic!() of the source, or,
\* in a build with overflow checks, the panic of the first operation that
\* overflows.
IcospherePanic(sphere, bytes, checks) ==
    LET points == NumberOfResultingPoints(sphere.subdivisions, bytes)
    IN  IF checks /\ points.overflow # "none"
        THEN [kind |-> "arithmetic_overflow", operation |-> points.overflow]
        ELSE [kind |-> "too_many_vertices",
              subdivisions |-> sphere.subdivisions,
              number_of_resulting_points |-> points.value]

\* p * sphere.radius
Scaled(p, radius) == [p EXCEPT !.scale = (p.scale * radius) \div F(1)]

\* for i in 0..19 { generated.get_indices(i, &mut indices); }
IndexLoopSkipsLastFace(generated) ==
    LET RECURSIVE Loop(_, _)
        Loop(i, acc) ==
            IF i >= 19 THEN acc
            ELSE Loop(i + 1,
                      [indices |-> GetIndices(generated, i, acc.indices),
                       calls |-> Append(acc.calls, <<"get_indices", i>>)])
    IN  Loop(0, [indices |-> << >>, calls |-> << >>])

\* for i in 0..20 { generated.get_indices(i, &mut indices); }
\* The buffer, and the calls made.
IndexLoop(generated) ==
    LET RECURSIVE Loop(_, _)
        Loop(i, acc) ==
            IF i >= 20 THEN acc
            ELSE Loop(i + 1,
                      [indices |-> GetIndices(generated, i, acc.indices),
                       calls |-> Append(acc.calls, <<"get_indices", i>>)])
    IN  Loop(0, [indices |-> << >>, calls |-> << >>])

\* impl From<Icosphere> for Mesh: the mesh or the panic, and the calls made
\* to the subdivider, in order.
FromIcosphere(sphere, bytes, checks) ==
    IF TooManySubdivisions(sphere.subdivisions, bytes)
    THEN [mesh |-> None,
          panic |-> IcospherePanic(sphere, bytes, checks),
          calls |-> << >>]
    ELSE LET generated == IcoSphereNew(BytesToNat(sphere.subdivisions))
             raw_points == RawPoints(generated)
             points == [p \in DOMAIN raw_points |->
                           Scaled(RawPoints(generated)[p], sphere.radius)]
             normals == raw_points
             uvs == RawData(generated)
             loop == IndexLoop(generated)
             indices == IndicesU32(loop.indices)
             m0 == MeshNew(TriangleList)
             m1 == SetIndices(m0, indices)
             m2 == SetAttribute(m1, ATTRIBUTE_POSITION, points)
             m3 == SetAttribute(m2, ATTRIBUTE_NORMAL, normals)
         IN  [mesh |-> SetAttribute(m3, ATTRIBUTE_UV_0, uvs),
              panic |-> None,
              calls |-> <<<<"new", generated.subdivisions>>,
                          <<"raw_points">>, <<"raw_data">>,
                          <<"indices_per_main_triangle">>>> \o loop.calls]

(***************************************************************************)
(* The state: the build the program is compiled for, the descriptor        *)
(* converted, the result of the conversion (the mesh returned or the       *)
(* panic, and the calls made to the subdivider), and whether the           *)
(* conversion has run.                                                     *)
(***************************************************************************)
VARIABLES usize_bytes, overflow_checks, shape, result, pc

vars == <<usize_bytes, overflow_checks, shape, result, pc>>

\* A conversion that returns its mesh.
Returned(m) == [mesh |-> m, panic |-> None, calls |-> << >>]

\* The mesh returned, the panic raised and the calls made to the subdivider.
mesh == result.mesh

panic == result.panic

calls == result.calls

\* The bounds of a Box written as a struct literal: -0.5, 0 and 0.5.
BoxBounds == {F(0) - 1, F(0), F(0) + 1}

\* The subdivisions requested: the lowest levels, the levels around the limit,
\* the powers of 256 and the largest usize.
SubdivisionInputs(bytes) ==
    {Usize(n, bytes) : n \in (0..MaxSubdivisions) \cup {79, 80, 81}}
    \cup {[i \in 1..bytes |-> IF i = p THEN 1 ELSE 0] : p \in 2..bytes}
    \cup {[i \in 1..bytes |-> Byte - 1]}

\* The descriptors converted.
Cubes == {CubeNew(size) : size \in Floats}

BoxNews ==
    {[x_length |-> x, y_length |-> y, z_length |-> z] :
        x \in Floats, y \in Floats, z \in Floats}

Boxes ==
    [min_x : BoxBounds, max_x : BoxBounds, min_y : BoxBounds,
     max_y : BoxBounds, min_z : BoxBounds, max_z : BoxBounds]

Quads ==
    {QuadNew(vec2(x, y)) : x \in Floats, y \in Floats}
    \cup {QuadFlipped(vec2(x, y)) : x \in Floats, y \in Floats}

Planes == [size : Floats]

\* Every radius with the lowest levels, the radius 1.0 with the others.
Icospheres(bytes) ==
    {IcosphereDefault(bytes)}
    \cup [radius : Floats, subdivisions : {Usize(n, bytes) : n \in 0..MaxSubdivisions}]
    \cup [radius : {F(1)}, subdivisions : SubdivisionInputs(bytes)]

\* A run converts one descriptor: the conversions share no state.
Init ==
    /\ usize_bytes \in {4, 8}
    /\ overflow_checks \in BOOLEAN
    /\ shape \in {[tag |-> "Cube", cube |-> c] : c \in Cubes}
            \cup {[tag |-> "Box::new", lengths |-> l] : l \in BoxNews}
            \cup {[tag |-> "Box", box |-> b] : b \in Boxes}
            \cup {[tag |-> "Quad", quad |-> q] : q \in Quads}
            \cup {[tag |-> "Plane", plane |-> p] : p \in Planes}
            \cup {[tag |-> "Icosphere", sphere |-> s] : s \in Icospheres(usize_bytes)}
    /\ result = Returned(None)
    /\ pc = "start"

\* Mesh::from(cube)
ConvertCube ==
    /\ pc = "start"
    /\ shape.tag = "Cube"
    /\ result' = Returned(FromCube(shape.cube))
    /\ pc' = "returned"
    /\ UNCHANGED <<usize_bytes, overflow_checks, shape>>

\* Mesh::from(Box::new(x_length, y_length, z_length))
ConvertBoxNew ==
    /\ pc = "start"
    /\ shape.tag = "Box::new"
    /\ result' = Returned(FromBox(BoxNew(shape.lengths.x_length, shape.lengths.y_length,
                              shape.lengths.z_length)))
    /\ pc' = "returned"
    /\ UNCHANGED <<usize_bytes, overflow_checks, shape>>

\* Mesh::from(Box { min_x, max_x, min_y, max_y, min_z, max_z })
ConvertBox ==
    /\ pc = "start"
    /\ shape.tag = "Box"
    /\ result' = Returned(FromBox(shape.box))
    /\ pc' = "returned"
    /\ UNCHANGED <<usize_bytes, overflow_checks, shape>>

\* Mesh::from(quad)
ConvertQuad ==
    /\ pc = "start"
    /\ shape.tag = "Quad"
    /\ result' = Returned(FromQuad(shape.quad))
    /\ pc' = "returned"
    /\ UNCHANGED <<usize_bytes, overflow_checks, shape>>

\* Mesh::from(plane)
ConvertPlane ==
    /\ pc = "start"
    /\ shape.tag = "Plane"
    /\ result' = Returned(FromPlane(shape.plane))
    /\ pc' = "returned"
    /\ UNCHANGED <<usize_bytes, overflow_checks, shape>>

\* Mesh::from(sphere)
ConvertIcosphere ==
    /\ pc = "start"
    /\ shape.tag = "Icosphere"
    /\ result' = FromIcosphere(shape.sphere, usize_bytes, overflow_checks)
    /\ pc' = IF result'.panic = None THEN "returned" ELSE "panicked"
    /\ UNCHANGED <<usize_bytes, overflow_checks, shape>>

Next ==
    \/ ConvertCube
    \/ ConvertBoxNew
    \/ ConvertBox
    \/ ConvertQuad
    \/ ConvertPlane
    \/ ConvertIcosphere

Spec == Init /\ [][Next]_vars

(***************************************************************************)
(* Vocabulary of the properties.                                           *)
(***************************************************************************)
PositionsOf(m) == m.attributes[ATTRIBUTE_POSITION]

NormalsOf(m) == m.attributes[ATTRIBUTE_NORMAL]

UvsOf(m) == m.attributes[ATTRIBUTE_UV_0]

IndexValues(m) == m.indices.values

\* The vertex the index buffer names at place k (1-based) of its buffer.
VertexAt(m, k) == PositionsOf(m)[IndexValues(m)[k] + 1]

Sub(u, v) == <<u[1] - v[1], u[2] - v[2], u[3] - v[3]>>

Cross(u, v) ==
    <<u[2] * v[3] - u[3] * v[2], u[3] * v[1] - u[1] * v[3], u[1] * v[2] - u[2] * v[1]>>

Dot(u, v) == u[1] * v[1] + u[2] * v[2] + u[3] * v[3]

\* The right-hand-rule normal of triangle t (1-based) of the index buffer.
TriangleNormal(m, t) ==
    Cross(Sub(VertexAt(m, 3 * t - 1), VertexAt(m, 3 * t - 2)),
          Sub(VertexAt(m, 3 * t), VertexAt(m, 3 * t - 2)))

\* u is not zero and points the way v points.
SameDirection(u, v) == Cross(u, v) = <<0, 0, 0>> /\ Dot(u, v) > 0

Reverse(seq) == [i \in 1..Len(seq) |-> seq[Len(seq) + 1 - i]]

ConvertedIcosphere == pc # "start" /\ shape.tag = "Icosphere"

\* ((s + 1)^2 * 10) + 2 as a natural number, whatever its size.
ProjectedVertexCount(s) ==
    LET n == BigAdd(s, <<1>>)
    IN  BigAdd(BigMul(BigMul(n, n), <<10>>), <<2>>)

\* The vertex limit the panic message states.
VertexLimit == 65535

(***************************************************************************)
(* C1: every mesh returned, by every generator and for every input, has    *)
(* position, normal and UV buffers of one length, index values all below   *)
(* the number of positions, an index buffer whose length is a multiple of  *)
(* 3, and the topology tag triangle list.                                  *)
(***************************************************************************)
C1_MeshContract ==
    pc = "returned" =>
        /\ DOMAIN mesh.attributes = {ATTRIBUTE_POSITION, ATTRIBUTE_NORMAL, ATTRIBUTE_UV_0}
        /\ Len(PositionsOf(mesh)) = Len(NormalsOf(mesh))
        /\ Len(NormalsOf(mesh)) = Len(UvsOf(mesh))
        /\ mesh.indices.tag = "U32"
        /\ LET values == IndexValues(mesh)
               vertices == Len(PositionsOf(mesh))
           IN  \A k \in 1..Len(values) : values[k] >= 0 /\ values[k] < vertices
        /\ Len(IndexValues(mesh)) % 3 = 0
        /\ mesh.primitive_topology = TriangleList

C1_Witness ==
    /\ pc = "returned"
    /\ shape.tag = "Icosphere"
    /\ shape.sphere.subdivisions = Usize(79, usize_bytes)
    /\ Len(PositionsOf(mesh)) = 64002
    /\ Len(IndexValues(mesh)) = 384000

(***************************************************************************)
(* C2: the mesh of Box::new with positive lengths has 24 positions, 24     *)
(* normals, 24 UVs and 36 indices, and the four normals of each face are   *)
(* the unit vector of the face: Top (0,0,1), Bottom (0,0,-1), Right        *)
(* (1,0,0), Left (-1,0,0), Front (0,1,0), Back (0,-1,0).                   *)
(***************************************************************************)
PositiveBoxNew ==
    /\ pc = "returned"
    /\ shape.tag = "Box::new"
    /\ shape.lengths.x_length > 0
    /\ shape.lengths.y_length > 0
    /\ shape.lengths.z_length > 0

FaceNormals ==
    << <<F(0), F(0), F(1)>>, <<F(0), F(0), F(-1)>>, <<F(1), F(0), F(0)>>,
       <<F(-1), F(0), F(0)>>, <<F(0), F(1), F(0)>>, <<F(0), F(-1), F(0)>> >>

C2_BoxCountsAndNormals ==
    PositiveBoxNew =>
        /\ Len(PositionsOf(mesh)) = 24
        /\ Len(NormalsOf(mesh)) = 24
        /\ Len(UvsOf(mesh)) = 24
        /\ Len(IndexValues(mesh)) = 36
        /\ \A f \in 0..5 : \A v \in 0..3 :
              NormalsOf(mesh)[4 * f + v + 1] = FaceNormals[f + 1]

C2_Witness ==
    /\ PositiveBoxNew
    /\ shape.lengths = [x_length |-> F(2), y_length |-> F(1), z_length |-> F(1)]
    /\ NormalsOf(mesh)[5] = <<F(0), F(0), F(-1)>>
    /\ PositionsOf(mesh)[1] = <<0 - F(1), 0 - 1, 1>>

(***************************************************************************)
(* C3: building an Icosphere panics, before the subdivider is called or    *)
(* any buffer built, exactly when subdivisions >= 80; 79 succeeds; and for *)
(* every usize s >= 80 the panic reports s and ((s+1)^2 * 10) + 2.         *)
(***************************************************************************)
C3_PanicReportsProjectedCount ==
    ConvertedIcosphere =>
        /\ pc = "panicked" <=> ~BigLess(shape.sphere.subdivisions, <<80>>)
        /\ pc = "panicked" => mesh = None /\ calls = << >>
        /\ shape.sphere.subdivisions = Usize(79, usize_bytes) => pc = "returned"
        /\ pc = "panicked" =>
              /\ panic.kind = "too_many_vertices"
              /\ panic.subdivisions = shape.sphere.subdivisions
              /\ BigEq(panic.number_of_resulting_points,
                       ProjectedVertexCount(shape.sphere.subdivisions))

(***************************************************************************)
(* C4 as stated: the UV of the flipped Quad at each vertex i is the point  *)
(* reflection (1-u, 1-v) of the UV of the unflipped Quad at i.             *)
(***************************************************************************)
ConvertedQuad == pc = "returned" /\ shape.tag = "Quad"

\* The meshes of the two variants of the quad converted, one of them the
\* mesh returned.
Unflipped == IF shape.quad.flip THEN FromQuad(QuadNew(shape.quad.size)) ELSE mesh

Flipped == IF shape.quad.flip THEN mesh ELSE FromQuad(QuadFlipped(shape.quad.size))

C4_UvPointReflection ==
    ConvertedQuad =>
        \A i \in 1..4 :
            UvsOf(Flipped)[i] =
                <<F(1) - UvsOf(Unflipped)[i][1], F(1) - UvsOf(Unflipped)[i][2]>>

(***************************************************************************)
(* C4 as amended: the UV of the flipped Quad at each vertex i is the UV of *)
(* the unflipped Quad at i mirrored in u alone: (1-u, v).                  *)
(***************************************************************************)
C4_UvMirroredInU ==
    ConvertedQuad =>
        /\ Len(UvsOf(Flipped)) = 4
        /\ Len(UvsOf(Unflipped)) = 4
        /\ \A i \in 1..4 :
              UvsOf(Flipped)[i] =
                  <<F(1) - UvsOf(Unflipped)[i][1], UvsOf(Unflipped)[i][2]>>

C4_Witness ==
    /\ ConvertedQuad
    /\ shape.quad = QuadFlipped(vec2(F(2), F(1)))
    /\ UvsOf(mesh) = << <<F(1), F(1)>>, <<F(1), F(0)>>, <<F(0), F(0)>>, <<F(0), F(1)>> >>

(***************************************************************************)
(* C5: for positive width and height the two variants of a Quad have the   *)
(* same set of 4 positions and the same index buffer 0,2,1,0,3,2, and each *)
(* triangle of the flipped quad has the orientation (the sign of the       *)
(* signed area in the XY plane) opposite to that of the same triangle of   *)
(* the unflipped quad.                                                     *)
(***************************************************************************)
PositiveQuad == ConvertedQuad /\ shape.quad.size.x > 0 /\ shape.quad.size.y > 0

\* Twice the signed area, in the XY plane, of triangle t of the index buffer.
SignedArea(m, t) == TriangleNormal(m, t)[3]

C5_SamePositionsReversedWinding ==
    PositiveQuad =>
        /\ {PositionsOf(Flipped)[i] : i \in 1..4} = {PositionsOf(Unflipped)[i] : i \in 1..4}
        /\ Cardinality({PositionsOf(Unflipped)[i] : i \in 1..4}) = 4
        /\ IndexValues(Flipped) = <<0, 2, 1, 0, 3, 2>>
        /\ IndexValues(Unflipped) = <<0, 2, 1, 0, 3, 2>>
        /\ \A t \in 1..2 :
              \/ SignedArea(Flipped, t) > 0 /\ SignedArea(Unflipped, t) < 0
              \/ SignedArea(Flipped, t) < 0 /\ SignedArea(Unflipped, t) > 0

C5_Witness ==
    /\ PositiveQuad
    /\ shape.quad.flip
    /\ shape.quad.size = vec2(F(1), F(2))
    /\ SignedArea(mesh, 1) < 0
    /\ SignedArea(mesh, 2) < 0

(***************************************************************************)
(* C6 as stated: in the Box mesh the four vertices of each of the 6 faces  *)
(* carry the UVs (0,0), (1,0), (1,1), (0,1) in that order, and the six     *)
(* indices of face f are 0,1,2,2,3,0 offset by 4f.                         *)
(***************************************************************************)
ConvertedBox == pc = "returned" /\ shape.tag \in {"Box::new", "Box", "Cube"}

ListedUvs == << <<F(0), F(0)>>, <<F(1), F(0)>>, <<F(1), F(1)>>, <<F(0), F(1)>> >>

MirroredUvs == << <<F(1), F(0)>>, <<F(0), F(0)>>, <<F(0), F(1)>>, <<F(1), F(1)>> >>

FaceIndexPattern == <<0, 1, 2, 2, 3, 0>>

FaceIndicesFollowPattern ==
    /\ Len(IndexValues(mesh)) = 36
    /\ \A f \in 0..5 : \A k \in 1..6 :
          IndexValues(mesh)[6 * f + k] = FaceIndexPattern[k] + 4 * f

C6_FaceUvsInListedOrder ==
    ConvertedBox =>
        /\ \A f \in 0..5 : \A v \in 1..4 : UvsOf(mesh)[4 * f + v] = ListedUvs[v]
        /\ FaceIndicesFollowPattern

(***************************************************************************)
(* C6 as amended: the four vertices of the faces Top, Right and Back carry *)
(* the UVs (0,0), (1,0), (1,1), (0,1) in that order, those of the faces    *)
(* Bottom, Left and Front carry (1,0), (0,0), (0,1), (1,1) in that order,  *)
(* and the six indices of face f are 0,1,2,2,3,0 offset by 4f.             *)
(***************************************************************************)
C6_FaceUvsPerFace ==
    ConvertedBox =>
        /\ Len(UvsOf(mesh)) = 24
        /\ \A f \in {0, 2, 5} : \A v \in 1..4 : UvsOf(mesh)[4 * f + v] = ListedUvs[v]
        /\ \A f \in {1, 3, 4} : \A v \in 1..4 : UvsOf(mesh)[4 * f + v] = MirroredUvs[v]
        /\ FaceIndicesFollowPattern

C6_Witness ==
    /\ ConvertedBox
    /\ shape.tag = "Box::new"
    /\ shape.lengths = [x_length |-> F(1), y_length |-> F(2), z_length |-> F(1)]
    /\ UvsOf(mesh)[5] = <<F(1), F(0)>>
    /\ IndexValues(mesh)[36] = 20

(***************************************************************************)
(* C7: a conversion of an Icosphere that returns has called get_indices    *)
(* once for each face 0..19, in ascending order, and its index buffer is   *)
(* the blocks of the faces 0..19 one after the other and nothing else;     *)
(* with 0 subdivisions the mesh has 12 vertices and 60 indices.            *)
(***************************************************************************)
ReturnedIcosphere == pc = "returned" /\ shape.tag = "Icosphere"

IsGetIndices(call) == call[1] = "get_indices"

\* The blocks of the faces f..19 of a sphere, one after the other.
RECURSIVE BlocksFrom(_, _)
BlocksFrom(subdivisions, f) ==
    IF f > 19 THEN << >>
    ELSE Block(subdivisions, f) \o BlocksFrom(subdivisions, f + 1)

C7_BlocksInFaceOrder ==
    ReturnedIcosphere =>
        /\ SelectSeq(calls, IsGetIndices) = [i \in 1..20 |-> <<"get_indices", i - 1>>]
        /\ IndexValues(mesh) = BlocksFrom(BytesToNat(shape.sphere.subdivisions), 0)
        /\ shape.sphere.subdivisions = Usize(0, usize_bytes) =>
              /\ Len(PositionsOf(mesh)) = 12
              /\ Len(IndexValues(mesh)) = 60

C7_Witness ==
    /\ ReturnedIcosphere
    /\ shape.sphere.subdivisions = Usize(1, usize_bytes)
    /\ Len(calls) = 24
    /\ calls[24] = <<"get_indices", 19>>
    /\ Len(IndexValues(mesh)) = 240
    /\ SubSeq(IndexValues(mesh), 229, 240) = Block(1, 19)

(***************************************************************************)
(* C8: a conversion of an Icosphere is rejected exactly when               *)
(* ((s+1)^2 * 10) + 2 exceeds the 65535 vertices of the panic message: 79  *)
(* is the largest level accepted, and its count is at most 65535.          *)
(***************************************************************************)
ExceedsVertexLimit(s) == BigLess(NatToBytes(VertexLimit, 4), ProjectedVertexCount(s))

C8_ThresholdAgreesWithLimit ==
    ConvertedIcosphere =>
        /\ pc = "panicked" <=> ExceedsVertexLimit(shape.sphere.subdivisions)
        /\ pc = "returned" => ~BigLess(<<79>>, shape.sphere.subdivisions)
        /\ shape.sphere.subdivisions = Usize(79, usize_bytes) =>
              pc = "returned" /\ ~ExceedsVertexLimit(shape.sphere.subdivisions)

C8_Witness ==
    /\ ConvertedIcosphere
    /\ pc = "panicked"
    /\ shape.sphere.subdivisions = Usize(80, usize_bytes)
    /\ BigEq(ProjectedVertexCount(shape.sphere.subdivisions), NatToBytes(65612, 4))
    /\ ExceedsVertexLimit(shape.sphere.subdivisions)

(***************************************************************************)
(* C9: in the mesh of Box::new with positive lengths, of a Plane of        *)
(* positive size and of an unflipped Quad of positive width and height,    *)
(* the right-hand-rule normal of every triangle of the index buffer is not *)
(* zero and points the way the normals of its three vertices point; every  *)
(* triangle of a Box names vertices of one face only.                      *)
(***************************************************************************)
PositivePlane == pc = "returned" /\ shape.tag = "Plane" /\ shape.plane.size > 0

C9_TrianglesFaceTheirNormals ==
    (PositiveBoxNew \/ PositivePlane \/ (PositiveQuad /\ ~shape.quad.flip)) =>
        \A t \in 1..(Len(IndexValues(mesh)) \div 3) :
            /\ \A k \in {3 * t - 2, 3 * t - 1, 3 * t} :
                  SameDirection(TriangleNormal(mesh, t),
                                NormalsOf(mesh)[IndexValues(mesh)[k] + 1])
            /\ shape.tag = "Box::new" =>
                  /\ IndexValues(mesh)[3 * t - 2] \div 4 = IndexValues(mesh)[3 * t - 1] \div 4
                  /\ IndexValues(mesh)[3 * t - 1] \div 4 = IndexValues(mesh)[3 * t] \div 4

C9_Witness ==
    /\ PositivePlane
    /\ shape.plane.size = F(2)
    /\ Len(IndexValues(mesh)) = 6
    /\ TriangleNormal(mesh, 1)[2] > 0
    /\ TriangleNormal(mesh, 2)[2] > 0

(***************************************************************************)
(* C10: for every size the vertices of the flipped Quad are those of the   *)
(* unflipped Quad in the reverse order, so that every corner keeps its UV  *)
(* and its normal (0,0,1): the unflipped Quad lists south-west with        *)
(* (0,1), north-west with (0,0), north-east with (1,0) and south-east with *)
(* (1,1).                                                                  *)
(***************************************************************************)
VerticesOf(m) == [i \in 1..4 |-> <<PositionsOf(m)[i], NormalsOf(m)[i], UvsOf(m)[i]>>]

\* Whether position p is the corner at sx half widths and sy half heights
\* from the centre.
IsCorner(p, sx, sy) ==
    /\ 2 * p[1] = sx * shape.quad.size.x
    /\ 2 * p[2] = sy * shape.quad.size.y
    /\ p[3] = F(0)

=============================================================================
